---- MODULE Spec2Model ----
(***************************************************************************)
(* TemperatureFader (src/modules/tools/temperaturefader): the loader       *)
(* instance that reads the configuration and spawns one fader per valid    *)
(* definition (on_module_loaded, load_config), and the per-second handler  *)
(* of every spawned fader (on_second_tick, get_highest_temperature,        *)
(* set_pwm).                                                               *)
(*                                                                         *)
(* Floats are modelled by integers: every temperature and duty value the   *)
(* model draws is integral, and the one place where the code leaves the    *)
(* integers, frac * (max_pwm - min_pwm) followed by the int() cast, is     *)
(* computed as the exact quotient truncated toward zero.                   *)
(***************************************************************************)
EXTENDS Integers, Sequences, FiniteSets

VARIABLES
    phase,        \* "loading": on_module_loaded is running; "running": ticks
                  \* are delivered; "crashed": the firmware stopped
    modulist,     \* the modules on_module_loaded has still to load
    loader,       \* the throwaway instance on_module_loaded runs on: the
                  \* times "delete this" ran on it, its fields, and alias, the
                  \* registered fader that now lives in its storage (0: none)
    leaked,       \* faders allocated by load_config, neither registered nor deleted
    controllers,  \* the faders registered for ON_SECOND_TICK, in order
    dangling,     \* the registered faders that have been deleted
    serviced,     \* the faders whose countdown has run out at least once
                  \* (observation only)
    clock,        \* per fader: due, the poll interval last stored into its
                  \* countdown, and since, the ticks it has handled since
                  \* (observation only)
    steady,       \* whether the highest readable temperature has settled,
                  \* at which value T, and the ticks delivered since
    last,         \* what the last handler did (observation only)
    writes        \* the PublicData::set_value calls of the last handler, in order

vars == <<phase, modulist, loader, leaked, controllers, dangling, serviced,
          clock, steady, last, writes>>

----------------------------------------------------------------------------
(* Program constants *)

default_heatup_poll == 15
default_cooldown_poll == 60
default_fading_poll == 1
default_min_fade_temp == 50
default_max_fade_temp == 150
default_min_fade_pwm == 0
default_max_fade_pwm == 255

\* CHECKSUM("hotend"): the module name that gets designator 'T' by default
temperaturefader_hotend_checksum == "hotend"

----------------------------------------------------------------------------
(* Integer conversions of the build (two's complement, values kept modulo  *)
(* the width)                                                              *)

ToUint8(n) == n % 256

ToUint16(n) == n % 65536

ToInt16(n) ==
    LET m == n % 65536
    IN  IF m >= 32768 THEN m - 65536 ELSE m

\* int(x) of the quotient n / d: truncation toward zero.  A zero divisor
\* makes the quotient infinite or not a number, and its conversion to int
\* has no defined result; 0 stands for it here (C16: no service gets there)
TruncDiv(n, d) ==
    IF d = 0 THEN 0
    ELSE IF (n >= 0) = (d > 0)
    THEN (IF n >= 0 THEN n ELSE -n) \div (IF d > 0 THEN d ELSE -d)
    ELSE -((IF n >= 0 THEN n ELSE -n) \div (IF d > 0 THEN d ELSE -d))

----------------------------------------------------------------------------
(* The environment: the temperature controllers of the pool, the           *)
(* configuration source and the readings                                   *)

\* temperature_control_pool->get_controllers(), in pool order
Pool == <<"s1", "s2", "s3">>

\* the designator each pool controller reports
Designator(c) == IF c = "s3" THEN "B" ELSE "T"

\* temperatures a controller can report
Temps == {-10, 40, 50, 100, 200}

\* what PublicData::get_value hands back for one controller: ok = FALSE is
\* a controller that does not answer
Readings ==
    {[ok |-> TRUE, current_temperature |-> t] : t \in Temps}
        \cup {[ok |-> FALSE, current_temperature |-> 0]}

\* a configuration value is <<>> when the key is absent and <<v>> when set
by_default(v, d) == IF v = <<>> THEN d ELSE v[1]

\* get_checksum(s): the 16-bit handle of a name (opaque, one per name)
get_checksum(s) == <<"checksum", s>>

\* the definitions the configuration source can hold for one module; the
\* designator is a string, given as its characters
Definitions ==
    [ enable        : {<<>>, <<TRUE>>},
      designator    : {<<>>, <<"B">>, <<"T", "2">>},
      switch        : {"", "fan"},
      type          : {"", "led"},
      min_fade_temp : {<<>>, <<-20>>},
      max_fade_temp : {<<>>, <<40>>, <<50>>},
      min_fade_pwm  : {<<>>, <<10>>},
      max_fade_pwm  : {<<>>, <<5>>},
      heatup_poll   : {<<>>, <<2>>, <<40000>>},
      cooldown_poll : {<<>>, <<3>>},
      fading_poll   : {<<>>, <<5>>} ]

\* the module lists get_module_list can return
ModuleLists == {<<>>, <<"hotend">>, <<"bed">>}

\* The configurations the factory is followed through on its own: up to
\* MaxModules module names, each with a definition out of
\* FactoryDefinitions
MaxModules == 2

ModuleNames == {"hotend", "bed", "chamber"}

FactoryModuleLists ==
    {q \in UNION {[1..n -> ModuleNames] : n \in 0..MaxModules} :
        \A a, b \in DOMAIN q : a # b => q[a] # q[b]}

FactoryDefinitions ==
    [ enable        : {<<>>, <<TRUE>>},
      designator    : {<<>>, <<"B">>},
      switch        : {"", "fan"},
      type          : {""},
      min_fade_temp : {<<>>},
      max_fade_temp : {<<>>, <<40>>},
      min_fade_pwm  : {<<>>},
      max_fade_pwm  : {<<>>},
      heatup_poll   : {<<>>},
      cooldown_poll : {<<>>},
      fading_poll   : {<<>>} ]

----------------------------------------------------------------------------
(* TemperatureFader::TemperatureFader *)

TemperatureFader ==
    [ temp_controllers               |-> <<>>,
      temperaturefader_min_fade_temp |-> default_min_fade_temp,
      temperaturefader_max_fade_temp |-> default_max_fade_temp,
      temperaturefader_min_fade_pwm  |-> default_min_fade_pwm,
      temperaturefader_max_fade_pwm  |-> default_max_fade_pwm,
      temperaturefader_switch_cs     |-> "",
      temperaturefader_heatup_poll   |-> default_heatup_poll,
      temperaturefader_cooldown_poll |-> default_cooldown_poll,
      temperaturefader_fading_poll   |-> default_fading_poll,
      countdown_timer                |-> 0,
      temperaturefader_pwm_value     |-> 0,
      temperaturefader_state         |-> FALSE ]

InitFrom(lists) ==
    /\ phase = "loading"
    /\ modulist \in lists
    /\ loader = [deletes |-> 0, object |-> TemperatureFader, alias |-> 0]
    /\ leaked = 0
    /\ controllers = <<>>
    /\ dangling = {}
    /\ serviced = {}
    /\ clock = <<>>
    /\ steady = [on |-> FALSE]
    /\ last = [op |-> "init"]
    /\ writes = <<>>

Init == InitFrom(ModuleLists)

----------------------------------------------------------------------------
(* TemperatureFader::load_config *)

\* the designator load_config resolves: "" is the code's 0 (none)
ResolveDesignator(modcs, def) ==
    IF def.designator = <<>>
    THEN IF modcs = temperaturefader_hotend_checksum THEN "T" ELSE ""
    ELSE def.designator[1]

\* the pool controllers that answer and carry the designator, in pool order
MatchingControllers(designator, avail) ==
    SelectSeq(Pool, LAMBDA c : c \in avail /\ Designator(c) = designator)

\* the switch name: the switch key, else the deprecated type key
SwitchName(def) == IF def.switch = "" THEN def.type ELSE def.switch

\* the fields load_config stores into the new fader ts
ConfiguredFader(def, matching) ==
    LET heatup == ToUint16(by_default(def.heatup_poll, default_heatup_poll))
    IN  [ TemperatureFader EXCEPT
            !.temp_controllers = matching,
            !.temperaturefader_switch_cs = get_checksum(SwitchName(def)),
            !.temperaturefader_min_fade_temp =
                by_default(def.min_fade_temp, default_min_fade_temp),
            !.temperaturefader_max_fade_temp =
                by_default(def.max_fade_temp, default_max_fade_temp),
            !.temperaturefader_min_fade_pwm =
                ToUint8(by_default(def.min_fade_pwm, default_min_fade_pwm)),
            !.temperaturefader_max_fade_pwm =
                ToUint8(by_default(def.max_fade_pwm, default_max_fade_pwm)),
            !.temperaturefader_heatup_poll = heatup,
            !.temperaturefader_cooldown_poll =
                ToUint16(by_default(def.cooldown_poll, default_cooldown_poll)),
            !.countdown_timer = ToInt16(heatup) ]

\* lines 154-160: the two range checks, made on the fields of the object
\* load_config runs on
ClampRanges(obj) ==
    LET t == IF obj.temperaturefader_max_fade_temp < obj.temperaturefader_min_fade_temp
             THEN [obj EXCEPT !.temperaturefader_max_fade_temp =
                                  obj.temperaturefader_min_fade_temp]
             ELSE obj
    IN  IF t.temperaturefader_max_fade_pwm < t.temperaturefader_min_fade_pwm
        THEN [t EXCEPT !.temperaturefader_max_fade_pwm =
                           t.temperaturefader_min_fade_pwm]
        ELSE t

\* what the range fields of "this" can hold when load_config reads them:
\* the loader's own values while it lives; once it has been deleted, the
\* fields of the registered fader cs[ld.alias] that was allocated in its
\* storage, or anything when the storage is free
LoaderMemory(ld, cs) ==
    IF ld.deletes = 0
    THEN {ld.object}
    ELSE IF ld.alias # 0
    THEN {cs[ld.alias]}
    ELSE {[ld.object EXCEPT !.temperaturefader_min_fade_temp = lo[1],
                            !.temperaturefader_max_fade_temp = hi[1],
                            !.temperaturefader_min_fade_pwm = lo[2],
                            !.temperaturefader_max_fade_pwm = hi[2]] :
             lo \in {<<50, 0>>, <<150, 255>>}, hi \in {<<50, 0>>, <<150, 255>>}}

\* whether the storage of the deleted loader is free, so that the next
\* "new TemperatureFader()" may be given it
StorageFree(ld) == ld.deletes > 0 /\ ld.alias = 0

\* what one call load_config(modcs) does to the loader ld, given the
\* definition def of the module, the pool controllers avail that answer,
\* the fields mem that "this" reads, whether the new fader ts is allocated
\* in the storage of the deleted loader (reused), and the index a fader
\* registered now gets: the loader afterwards, the fader it registered
\* (none: <<>>), the faders it left allocated, its return value, the
\* registered faders whose range fields it rewrote (clamped) or that it
\* deleted (destroyed), and whether it freed storage that was free already
load_config(ld, modcs, def, avail, mem, reused, index) ==
    LET designator == ResolveDesignator(modcs, def)
        matching   == MatchingControllers(designator, avail)
        none       == [loader |-> ld, registered |-> <<>>, leaks |-> 0,
                       result |-> FALSE, clamped |-> <<>>, destroyed |-> {},
                       double_free |-> FALSE]
        ts         == ConfiguredFader(def, matching)
    IN  IF ~by_default(def.enable, FALSE) THEN none
        ELSE IF designator = "" THEN none
        ELSE IF matching = <<>> THEN none
        ELSE IF SwitchName(def) = ""
             \* line 143: delete this, where delete ts was meant
             THEN [none EXCEPT
                     !.loader = [ld EXCEPT !.deletes = @ + 1, !.alias = 0],
                     !.leaks = IF reused THEN 0 ELSE 1,
                     !.destroyed = IF ld.alias # 0 THEN {ld.alias} ELSE {},
                     !.double_free = StorageFree(ld) /\ ~reused]
        ELSE IF reused
             \* this and ts are one object: the range checks act on ts
             THEN [none EXCEPT
                     !.loader = [ld EXCEPT !.object = ClampRanges(ts),
                                           !.alias = index],
                     !.registered = <<ClampRanges(ts)>>,
                     !.result = TRUE]
        ELSE [none EXCEPT
                !.loader = [ld EXCEPT !.object = ClampRanges(mem)],
                !.registered = <<ts>>,
                !.result = TRUE,
                !.clamped = IF ld.alias # 0
                            THEN <<[index |-> ld.alias, fader |-> ClampRanges(mem)]>>
                            ELSE <<>>]

\* the registered faders cs after load_config rewrote the range fields of
\* the one that shares the storage of the loader
Clamped(cs, clamped) ==
    IF clamped = <<>> THEN cs
    ELSE [cs EXCEPT ![clamped[1].index] = clamped[1].fader]

\* one iteration of the loop of on_module_loaded, the definition of the
\* module drawn from defs
LoadConfigFrom(defs) ==
    /\ phase = "loading"
    /\ modulist # <<>>
    /\ \E def \in defs, avail \in SUBSET {Pool[k] : k \in 1..Len(Pool)},
          mem \in LoaderMemory(loader, controllers),
          reused \in IF StorageFree(loader) THEN BOOLEAN ELSE {FALSE} :
         LET modcs == Head(modulist)
             r     == load_config(loader, modcs, def, avail, mem, reused,
                                  Len(controllers) + 1)
         IN  /\ loader' = r.loader
             /\ leaked' = leaked + r.leaks
             /\ controllers' = Clamped(controllers, r.clamped) \o r.registered
             /\ dangling' = dangling \cup r.destroyed
             /\ clock' = clock \o [k \in 1..Len(r.registered) |->
                                     [due   |-> r.registered[k].temperaturefader_heatup_poll,
                                      since |-> 0]]
             /\ last' = [op |-> "load_config", modcs |-> modcs, def |-> def,
                         avail |-> avail, result |-> r.result,
                         on_deleted |-> loader.deletes > 0]
             \* freeing storage that is free already can stop the firmware
             /\ phase' \in IF r.double_free
                            THEN {"loading", "crashed"} ELSE {"loading"}
    /\ modulist' = Tail(modulist)
    /\ writes' = <<>>
    /\ UNCHANGED <<serviced, steady>>

LoadConfig == LoadConfigFrom(Definitions)

LoadFactoryConfig == LoadConfigFrom(FactoryDefinitions)

\* the end of on_module_loaded: delete this
ModuleLoaded ==
    /\ phase = "loading"
    /\ modulist = <<>>
    /\ loader' = [loader EXCEPT !.deletes = @ + 1, !.alias = 0]
    \* on a loader deleted before, this deletes the registered fader that
    \* lives in its storage, or frees storage that is free already
    /\ dangling' = dangling \cup (IF loader.alias # 0 THEN {loader.alias} ELSE {})
    /\ phase' \in IF StorageFree(loader) THEN {"running", "crashed"} ELSE {"running"}
    /\ last' = [op |-> "on_module_loaded"]
    /\ UNCHANGED <<modulist, leaked, controllers, serviced, clock, steady, writes>>

----------------------------------------------------------------------------
(* TemperatureFader::get_highest_temperature *)

\* the loop of get_highest_temperature over the controllers cs, entered with
\* high_temp; readings[c] is what get_value returns for controller c
RECURSIVE HighestFrom(_, _, _)
HighestFrom(cs, readings, high_temp) ==
    IF cs = <<>> THEN high_temp
    ELSE LET r == readings[Head(cs)]
         IN  HighestFrom(Tail(cs), readings,
                 IF r.ok /\ r.current_temperature > high_temp
                 THEN r.current_temperature ELSE high_temp)

get_highest_temperature(c, readings) == HighestFrom(c.temp_controllers, readings, 0)

----------------------------------------------------------------------------
(* TemperatureFader::set_pwm *)

\* set_pwm without the comparison against the value held: the fault C10
\* rules out
set_pwm_unguarded(c, value, ok_state, ok_value) ==
    LET on     == value > c.temperaturefader_min_fade_pwm
        toggle == on # c.temperaturefader_state
    IN  [ fader  |-> [c EXCEPT !.temperaturefader_state = on,
                               !.temperaturefader_pwm_value = value],
          writes |-> (IF toggle
                      THEN <<[key |-> "state", to |-> c.temperaturefader_switch_cs,
                              data |-> on, ok |-> ok_state]>>
                      ELSE <<>>)
                     \o <<[key |-> "value", to |-> c.temperaturefader_switch_cs,
                           data |-> value, ok |-> ok_value]>> ]

\* set_pwm that takes every value above 0 for "on": the fault C19 rules out
set_pwm_on_above_zero(c, value, ok_state, ok_value) ==
    IF c.temperaturefader_pwm_value # value
    THEN LET on     == value > 0
             toggle == on # c.temperaturefader_state
         IN  [ fader  |-> [c EXCEPT !.temperaturefader_state = on,
                                    !.temperaturefader_pwm_value = value],
               writes |-> (IF toggle
                           THEN <<[key |-> "state", to |-> c.temperaturefader_switch_cs,
                                   data |-> on, ok |-> ok_state]>>
                           ELSE <<>>)
                          \o <<[key |-> "value", to |-> c.temperaturefader_switch_cs,
                                data |-> value, ok |-> ok_value]>> ]
    ELSE [fader |-> c, writes |-> <<>>]

\* set_pwm that writes the value before the state: the fault C11 rules out
set_pwm_value_first(c, value, ok_state, ok_value) ==
    IF c.temperaturefader_pwm_value # value
    THEN LET on     == value > c.temperaturefader_min_fade_pwm
             toggle == on # c.temperaturefader_state
         IN  [ fader  |-> [c EXCEPT !.temperaturefader_state = on,
                                    !.temperaturefader_pwm_value = value],
               writes |-> <<[key |-> "value", to |-> c.temperaturefader_switch_cs,
                             data |-> value, ok |-> ok_value]>>
                          \o (IF toggle
                              THEN <<[key |-> "state", to |-> c.temperaturefader_switch_cs,
                                      data |-> on, ok |-> ok_state]>>
                              ELSE <<>>) ]
    ELSE [fader |-> c, writes |-> <<>>]

\* set_pwm that gives up when the state write fails: the fault C12 rules out
set_pwm_stop_on_failure(c, value, ok_state, ok_value) ==
    IF c.temperaturefader_pwm_value # value
    THEN LET on     == value > c.temperaturefader_min_fade_pwm
             toggle == on # c.temperaturefader_state
         IN  IF toggle /\ ~ok_state
             THEN [ fader  |-> [c EXCEPT !.temperaturefader_state = on],
                    writes |-> <<[key |-> "state", to |-> c.temperaturefader_switch_cs,
                                  data |-> on, ok |-> ok_state]>> ]
             ELSE [ fader  |-> [c EXCEPT !.temperaturefader_state = on,
                                         !.temperaturefader_pwm_value = value],
                    writes |-> (IF toggle
                                THEN <<[key |-> "state",
                                        to |-> c.temperaturefader_switch_cs,
                                        data |-> on, ok |-> ok_state]>>
                                ELSE <<>>)
                               \o <<[key |-> "value",
                                     to |-> c.temperaturefader_switch_cs,
                                     data |-> value, ok |-> ok_value]>> ]
    ELSE [fader |-> c, writes |-> <<>>]

\* set_pwm(value) on fader c; ok_state and ok_value are what the two
\* set_value calls return. Gives the fader afterwards and the set_value
\* calls made, in order
set_pwm(c, value, ok_state, ok_value) ==
    IF c.temperaturefader_pwm_value # value
    THEN LET on     == value > c.temperaturefader_min_fade_pwm
             toggle == on # c.temperaturefader_state
         IN  [ fader  |-> [c EXCEPT !.temperaturefader_state = on,
                                    !.temperaturefader_pwm_value = value],
               writes |-> (IF toggle
                           THEN <<[key |-> "state", to |-> c.temperaturefader_switch_cs,
                                   data |-> on, ok |-> ok_state]>>
                           ELSE <<>>)
                          \o <<[key |-> "value", to |-> c.temperaturefader_switch_cs,
                                data |-> value, ok |-> ok_value]>> ]
    ELSE [fader |-> c, writes |-> <<>>]

----------------------------------------------------------------------------
(* TemperatureFader::on_second_tick *)

\* a countdown that loses two per tick: the fault C6 rules out
DecrementTwice(countdown_timer) == ToInt16(countdown_timer - 2)

\* line 192: countdown_timer--
Decrement(countdown_timer) == ToInt16(countdown_timer - 1)

\* lines 186-187: the value of the fading branch
FadeValue(c, current_temp) ==
    c.temperaturefader_min_fade_pwm
        + TruncDiv((current_temp - c.temperaturefader_min_fade_temp)
                       * (c.temperaturefader_max_fade_pwm - c.temperaturefader_min_fade_pwm),
                   c.temperaturefader_max_fade_temp - c.temperaturefader_min_fade_temp)

\* the decision with both comparisons strict, which lets a temperature on
\* the single point of a degenerate band through to the interpolation: the
\* fault C16 rules out
DecideStrict(c, current_temp) ==
    IF current_temp < c.temperaturefader_min_fade_temp
    THEN [branch |-> "off", value |-> c.temperaturefader_min_fade_pwm,
          poll |-> c.temperaturefader_heatup_poll]
    ELSE IF current_temp > c.temperaturefader_max_fade_temp
    THEN [branch |-> "max", value |-> c.temperaturefader_max_fade_pwm,
          poll |-> c.temperaturefader_cooldown_poll]
    ELSE [branch |-> "fading", value |-> FadeValue(c, current_temp),
          poll |-> c.temperaturefader_fading_poll]

\* lines 179-190: the branch taken for current_temp, the value handed to
\* set_pwm and the poll interval stored into countdown_timer
Decide(c, current_temp) ==
    IF current_temp <= c.temperaturefader_min_fade_temp
    THEN [branch |-> "off", value |-> c.temperaturefader_min_fade_pwm,
          poll |-> c.temperaturefader_heatup_poll]
    ELSE IF current_temp >= c.temperaturefader_max_fade_temp
    THEN [branch |-> "max", value |-> c.temperaturefader_max_fade_pwm,
          poll |-> c.temperaturefader_cooldown_poll]
    ELSE [branch |-> "fading", value |-> FadeValue(c, current_temp),
          poll |-> c.temperaturefader_fading_poll]

\* on_second_tick on fader c when the countdown has run out
Service(c, readings, ok_state, ok_value) ==
    LET current_temp == get_highest_temperature(c, readings)
        d            == Decide(c, current_temp)
        s            == set_pwm(c, d.value, ok_state, ok_value)
    IN  [ fader  |-> [s.fader EXCEPT !.countdown_timer = ToInt16(d.poll)],
          writes |-> s.writes,
          current_temp |-> current_temp,
          branch |-> d.branch,
          value  |-> d.value,
          poll   |-> d.poll ]

\* the results the sink can give to the set_value calls that
\* set_pwm(c, value) makes (a call that is not made has no result to draw)
SinkResults(c, value) ==
    LET made == set_pwm(c, value, TRUE, TRUE).writes
        keys == {made[k].key : k \in 1..Len(made)}
    IN  [ state : IF "state" \in keys THEN BOOLEAN ELSE {TRUE},
          value : IF "value" \in keys THEN BOOLEAN ELSE {TRUE} ]

\* The temperature settling: from some tick on every sample finds a
\* readable controller and the highest readable temperature is T.  The
\* ticks delivered since are counted up to MaxSteadyTicks
MaxSteadyTicks == 4

SteadyModuleLists == {<<"hotend">>}

SteadyDefinitions ==
    [ enable        : {<<TRUE>>},
      designator    : {<<>>},
      switch        : {"fan"},
      type          : {""},
      min_fade_temp : {<<>>, <<-20>>},
      max_fade_temp : {<<>>},
      min_fade_pwm  : {<<>>, <<10>>},
      max_fade_pwm  : {<<>>},
      heatup_poll   : {<<2>>},
      cooldown_poll : {<<3>>},
      fading_poll   : {<<>>, <<5>>} ]

\* the readings the settled temperature allows
Settled(readings) ==
    steady.on
        => LET readable == {c \in DOMAIN readings : readings[c].ok}
           IN  /\ readable # {}
               /\ \A c \in readable : readings[c].current_temperature <= steady.T
               /\ \E c \in readable : readings[c].current_temperature = steady.T

\* one more tick delivered
Ticked(st) ==
    IF st.on /\ st.ticks < MaxSteadyTicks
    THEN [st EXCEPT !.ticks = @ + 1]
    ELSE st

\* the temperature settles at T
Settle ==
    /\ phase = "running"
    /\ ~steady.on
    /\ \E T \in Temps : steady' = [on |-> TRUE, T |-> T, ticks |-> 0]
    /\ UNCHANGED <<phase, modulist, loader, leaked, controllers, dangling,
                   serviced, clock, last, writes>>

\* the handler of fader i on a tick that finds the countdown run out
TickService(i) ==
    /\ phase = "running"
    /\ i \in 1..Len(controllers) \ dangling
    /\ controllers[i].countdown_timer <= 1
    /\ \E readings \in [{controllers[i].temp_controllers[k] :
                            k \in 1..Len(controllers[i].temp_controllers)} -> Readings] :
         /\ Settled(readings)
         /\ \E ok \in SinkResults(controllers[i],
                     Decide(controllers[i],
                            get_highest_temperature(controllers[i], readings)).value) :
           LET r == Service(controllers[i], readings, ok.state, ok.value)
           IN  /\ controllers' = [controllers EXCEPT ![i] = r.fader]
               /\ writes' = r.writes
               /\ last' = [op |-> "on_second_tick", fader |-> i, serviced |-> TRUE,
                           readings |-> readings, current_temp |-> r.current_temp,
                           branch |-> r.branch, value |-> r.value,
                           first |-> i \notin serviced,
                           before |-> controllers[i],
                           due |-> clock[i].due, waited |-> clock[i].since + 1]
               /\ clock' = [clock EXCEPT ![i] = [due |-> r.poll, since |-> 0]]
    /\ serviced' = serviced \cup {i}
    /\ steady' = Ticked(steady)
    /\ UNCHANGED <<phase, modulist, loader, leaked, dangling>>

\* the handler of fader i on any other tick
TickWait(i) ==
    /\ phase = "running"
    /\ i \in 1..Len(controllers) \ dangling
    /\ controllers[i].countdown_timer > 1
    /\ controllers' = [controllers EXCEPT
                          ![i].countdown_timer = Decrement(@)]
    /\ writes' = <<>>
    /\ clock' = [clock EXCEPT ![i].since = @ + 1]
    /\ steady' = Ticked(steady)
    /\ last' = [op |-> "on_second_tick", fader |-> i, serviced |-> FALSE,
                before |-> controllers[i]]
    /\ UNCHANGED <<phase, modulist, loader, leaked, dangling, serviced>>

----------------------------------------------------------------------------

Next ==
    \/ LoadConfig
    \/ ModuleLoaded
    \* ON_SECOND_TICK, delivered to each registered fader: on_second_tick
    \/ \E i \in 1..Len(controllers) : TickService(i)
    \/ \E i \in 1..Len(controllers) : TickWait(i)

Spec == Init /\ [][Next]_vars

\* on_module_loaded alone, from its first iteration to its delete this
InitFactory == InitFrom(FactoryModuleLists)

NextFactory == LoadFactoryConfig \/ ModuleLoaded

SpecFactory == InitFactory /\ [][NextFactory]_vars

\* one fader with short poll intervals, ticking before and after its
\* temperature settles
InitSteady == InitFrom(SteadyModuleLists)

LoadSteadyConfig == LoadConfigFrom(SteadyDefinitions)

NextSteady ==
    \/ LoadSteadyConfig
    \/ ModuleLoaded
    \/ Settle
    \/ \E i \in 1..Len(controllers) : TickService(i)
    \/ \E i \in 1..Len(controllers) : TickWait(i)

SpecSteady == InitSteady /\ [][NextSteady]_vars

----------------------------------------------------------------------------
(* Vocabulary of the properties *)

\* the last step was a tick handler / one that found the countdown run out
\* / one that only counted down
IsTick == last.op = "on_second_tick"
Serviced == IsTick /\ last.serviced
Waited == IsTick /\ ~last.serviced

\* the set_value calls of the last handler that carry the duty value
ValueWrites == {k \in 1..Len(writes) : writes[k].key = "value"}

\* the largest element of a non-empty set of numbers
MaxOf(S) == CHOOSE m \in S : \A x \in S : x <= m

\* the temperatures of the controllers that answered on the last service
ReadableTemps ==
    {last.readings[c].current_temperature :
        c \in {x \in DOMAIN last.readings : last.readings[x].ok}}

\* floor of n / d for d > 0
FloorDiv(n, d) == n \div d

----------------------------------------------------------------------------
(* C1 *)

\* C1: every fader the factory registers has max_fade_temp >= min_fade_temp
\* and max_fade_pwm >= min_fade_pwm (a configured high bound below the low
\* bound is raised to the low bound).
C1_HighBoundsClamped ==
    \A i \in 1..Len(controllers) :
        /\ controllers[i].temperaturefader_max_fade_temp
               >= controllers[i].temperaturefader_min_fade_temp
        /\ controllers[i].temperaturefader_max_fade_pwm
               >= controllers[i].temperaturefader_min_fade_pwm

----------------------------------------------------------------------------
(* C2 *)

\* C2: the first time the countdown of a fader runs out, the handler issues
\* the value write, whatever the temperature and the pwm range.
C2_FirstServiceWrites ==
    (Serviced /\ last.first) => ValueWrites # {}

----------------------------------------------------------------------------
(* C3 *)

\* C3: when the countdown has run out and the sampled temperature is at most
\* min_fade_temp, set_pwm is called with min_fade_pwm and the countdown after
\* the tick equals heatup_poll.
C3_OffBranch ==
    (Serviced /\ last.current_temp <= last.before.temperaturefader_min_fade_temp)
        => /\ last.value = last.before.temperaturefader_min_fade_pwm
           /\ controllers[last.fader].countdown_timer
                  = last.before.temperaturefader_heatup_poll

----------------------------------------------------------------------------
(* C4 *)

\* C4: when the countdown has run out and the sampled temperature is at
\* least max_fade_temp, set_pwm is called with max_fade_pwm and the countdown
\* after the tick equals cooldown_poll, the band max_fade_temp = min_fade_temp
\* included.
C4_MaxBranch ==
    (Serviced /\ last.current_temp >= last.before.temperaturefader_max_fade_temp)
        => /\ last.value = last.before.temperaturefader_max_fade_pwm
           /\ controllers[last.fader].countdown_timer
                  = last.before.temperaturefader_cooldown_poll

----------------------------------------------------------------------------
(* C5 *)

\* C5: when the countdown has run out and the sampled temperature is strictly
\* between min_fade_temp and max_fade_temp, set_pwm is called with
\* min_fade_pwm + floor((temp - min_fade_temp) / (max_fade_temp - min_fade_temp)
\* * (max_fade_pwm - min_fade_pwm)) and the countdown after the tick equals
\* fading_poll.
C5_FadingBranch ==
    (/\ Serviced
     /\ last.before.temperaturefader_min_fade_temp < last.current_temp
     /\ last.current_temp < last.before.temperaturefader_max_fade_temp)
        => /\ last.value =
                  last.before.temperaturefader_min_fade_pwm
                    + FloorDiv((last.current_temp
                                   - last.before.temperaturefader_min_fade_temp)
                                 * (last.before.temperaturefader_max_fade_pwm
                                      - last.before.temperaturefader_min_fade_pwm),
                               last.before.temperaturefader_max_fade_temp
                                 - last.before.temperaturefader_min_fade_temp)
           /\ controllers[last.fader].countdown_timer
                  = last.before.temperaturefader_fading_poll

----------------------------------------------------------------------------
(* C6 *)

\* C6: a tick that finds countdown_timer > 1 decreases it by exactly 1,
\* samples no temperature, does not call set_pwm, issues no set_value and
\* leaves every other field of the fader, and every other fader, unchanged.
C6_WaitOnlyCountsDown ==
    [][\A i \in 1..Len(controllers) :
          (/\ last'.op = "on_second_tick"
           /\ last'.fader = i
           /\ controllers[i].countdown_timer > 1)
              => /\ ~last'.serviced
                 /\ controllers' =
                        [controllers EXCEPT ![i].countdown_timer = @ - 1]
                 /\ writes' = <<>>
                 /\ UNCHANGED <<phase, modulist, loader, leaked, serviced>>]_vars

\* a tick took the countdown from 5 to 4 and did nothing else
C6_Witness ==
    /\ Waited
    /\ last.before.countdown_timer = 5
    /\ controllers[last.fader] = [last.before EXCEPT !.countdown_timer = 4]
    /\ writes = <<>>

----------------------------------------------------------------------------
(* C7 *)

\* C7: every duty value written to the switch lies within
\* [min_fade_pwm, max_fade_pwm] of the fader that writes it.
C7_ValueWithinPwmRange ==
    Serviced =>
        \A k \in ValueWrites :
            /\ writes[k].data >= controllers[last.fader].temperaturefader_min_fade_pwm
            /\ writes[k].data <= controllers[last.fader].temperaturefader_max_fade_pwm

----------------------------------------------------------------------------
(* C8 *)

\* C8: the temperature a service decides on is the maximum of the
\* temperatures of the controllers that answered, negative ones included,
\* and 0 only when none answered.
C8_HighestOfReadable ==
    Serviced =>
        last.current_temp = IF ReadableTemps = {} THEN 0 ELSE MaxOf(ReadableTemps)

----------------------------------------------------------------------------
(* C9 *)

\* C9: when no controller answers, the temperature decided on is 0 and the
\* fader takes the off branch (set_pwm(min_fade_pwm), countdown =
\* heatup_poll), whatever the band.
C9_NoReadingIsOff ==
    (Serviced /\ ReadableTemps = {})
        => /\ last.current_temp = 0
           /\ last.branch = "off"
           /\ last.value = last.before.temperaturefader_min_fade_pwm
           /\ controllers[last.fader].countdown_timer
                  = last.before.temperaturefader_heatup_poll

----------------------------------------------------------------------------
(* C10 *)

\* C10: set_pwm called with the value the fader already holds issues no
\* set_value and leaves temperaturefader_state and temperaturefader_pwm_value
\* unchanged; so a service that asks for the value of the service right
\* before it issues no write.
C10_SameValueIsNoOp ==
    [][\A i \in 1..Len(controllers) :
          (/\ last'.op = "on_second_tick"
           /\ last'.fader = i
           /\ last'.serviced)
              => /\ (last'.value = controllers[i].temperaturefader_pwm_value)
                        => /\ writes' = <<>>
                           /\ controllers'[i].temperaturefader_state
                                  = controllers[i].temperaturefader_state
                           /\ controllers'[i].temperaturefader_pwm_value
                                  = controllers[i].temperaturefader_pwm_value
                 /\ (Serviced /\ last.fader = i /\ last'.value = last.value)
                        => writes' = <<>>]_vars

\* a second service asked for the value the first had written, and wrote
\* nothing
C10_Witness ==
    /\ Serviced
    /\ ~last.first
    /\ last.value = last.before.temperaturefader_pwm_value
    /\ last.value # 0
    /\ last.before.temperaturefader_state
    /\ writes = <<>>

----------------------------------------------------------------------------
(* What the code does keep of C2-C5 and C7-C9: each of these holds in every *)
(* reachable state, which locates the failures above in the initial value   *)
(* of temperaturefader_pwm_value (C2), the int16_t countdown (C3, C9), the  *)
(* range checks made on the loader (C4, C5, C7), the order of the two       *)
(* comparisons (C4), the initial high_temp (C8) and a band below 0 (C9).    *)

\* the first service issues the value write unless the value decided is 0
FirstServiceWritesUnlessZero ==
    (Serviced /\ last.first /\ last.value # 0) => ValueWrites # {}

\* the off branch stores heatup_poll as an int16_t
OffBranchNarrowed ==
    (Serviced /\ last.current_temp <= last.before.temperaturefader_min_fade_temp)
        => /\ last.value = last.before.temperaturefader_min_fade_pwm
           /\ controllers[last.fader].countdown_timer
                  = ToInt16(last.before.temperaturefader_heatup_poll)

\* the max branch is taken at or above max_fade_temp only above min_fade_temp
MaxBranchAboveMin ==
    (/\ Serviced
     /\ last.current_temp >= last.before.temperaturefader_max_fade_temp
     /\ last.current_temp > last.before.temperaturefader_min_fade_temp)
        => /\ last.value = last.before.temperaturefader_max_fade_pwm
           /\ controllers[last.fader].countdown_timer
                  = ToInt16(last.before.temperaturefader_cooldown_poll)

\* with max_fade_pwm >= min_fade_pwm the fading value is the floor of C5 and
\* every value written is within the range
OrderedPwmRange ==
    (Serviced /\ last.before.temperaturefader_max_fade_pwm
                    >= last.before.temperaturefader_min_fade_pwm)
        => /\ C5_FadingBranch
           /\ C7_ValueWithinPwmRange

\* the temperature decided on is the highest of 0 and the readable ones
HighestOfReadableAndZero ==
    Serviced => last.current_temp = MaxOf(ReadableTemps \cup {0})

\* with no reading a band that starts at or above 0 takes the off branch
NoReadingIsOffFromZeroUp ==
    (/\ Serviced
     /\ ReadableTemps = {}
     /\ last.before.temperaturefader_min_fade_temp >= 0)
        => /\ last.current_temp = 0
           /\ last.branch = "off"
           /\ last.value = last.before.temperaturefader_min_fade_pwm
           /\ controllers[last.fader].countdown_timer
                  = ToInt16(last.before.temperaturefader_heatup_poll)

----------------------------------------------------------------------------
(* C11 *)

\* C11: set_pwm called with a value other than the one held issues the
\* state write if and only if (value > min_fade_pwm) differs from
\* temperaturefader_state, with the new state as its data and before the
\* value write; the value write is issued exactly once, last, with the
\* value; both go to the switch of the fader and nothing else is written.
C11_StateThenValue ==
    (Serviced /\ last.value # last.before.temperaturefader_pwm_value)
        => LET on     == last.value > last.before.temperaturefader_min_fade_pwm
               toggle == on # last.before.temperaturefader_state
               n      == Len(writes)
           IN  /\ n = IF toggle THEN 2 ELSE 1
               /\ writes[n].key = "value"
               /\ writes[n].data = last.value
               /\ toggle => /\ writes[1].key = "state"
                             /\ writes[1].data = on
               /\ controllers[last.fader].temperaturefader_state = on
               /\ \A k \in 1..n :
                     writes[k].to = last.before.temperaturefader_switch_cs

\* a service switched the fader on: the state write TRUE, then the value
C11_Witness ==
    /\ Serviced
    /\ Len(writes) = 2
    /\ writes[1].key = "state" /\ writes[1].data = TRUE
    /\ writes[2].key = "value" /\ writes[2].data = last.value
    /\ ~last.before.temperaturefader_state

----------------------------------------------------------------------------
(* C12 *)

\* C12: a set_value that fails neither stops nor undoes set_pwm and is not
\* repeated: after a failed state write the value write is still issued,
\* temperaturefader_state and temperaturefader_pwm_value hold the new
\* values whatever the two calls returned, and the next service that asks
\* for the same value writes nothing.
C12_FailedWriteIsNotRetried ==
    [][\A i \in 1..Len(controllers) :
          (/\ last'.op = "on_second_tick"
           /\ last'.fader = i
           /\ last'.serviced)
              => /\ (last'.value # controllers[i].temperaturefader_pwm_value)
                        => /\ \E k \in 1..Len(writes') :
                                 /\ writes'[k].key = "value"
                                 /\ writes'[k].data = last'.value
                           /\ controllers'[i].temperaturefader_pwm_value = last'.value
                           /\ controllers'[i].temperaturefader_state
                                  = (last'.value
                                       > controllers[i].temperaturefader_min_fade_pwm)
                 /\ (/\ Serviced
                      /\ last.fader = i
                      /\ \E k \in 1..Len(writes) : ~writes[k].ok
                      /\ last'.value = last.value)
                        => /\ writes' = <<>>
                           /\ controllers'[i].temperaturefader_pwm_value = last.value]_vars

\* the state write failed, the value write was issued all the same and the
\* fader holds the new state and value
C12_Witness ==
    /\ Serviced
    /\ Len(writes) = 2
    /\ writes[1].key = "state" /\ ~writes[1].ok
    /\ writes[2].key = "value"
    /\ controllers[last.fader].temperaturefader_state = writes[1].data
    /\ controllers[last.fader].temperaturefader_pwm_value = writes[2].data

----------------------------------------------------------------------------
(* C14 *)

\* C14: a fader that load_config has just registered holds, for each of the
\* three poll intervals, the value its definition configures, or the
\* default (15, 60, 1) where the definition gives none; so the countdown
\* stored by the fading branch, temperaturefader_fading_poll, is the
\* fading poll the definition configures.
C14_PollsAsConfigured ==
    (last.op = "load_config" /\ last.result)
        => LET c == controllers[Len(controllers)]
           IN  /\ c.temperaturefader_heatup_poll
                      = by_default(last.def.heatup_poll, default_heatup_poll)
               /\ c.temperaturefader_cooldown_poll
                      = by_default(last.def.cooldown_poll, default_cooldown_poll)
               /\ c.temperaturefader_fading_poll
                      = by_default(last.def.fading_poll, default_fading_poll)

\* what the code does: heatup and cooldown as configured, fading always
\* the default
PollsAsRead ==
    (last.op = "load_config" /\ last.result)
        => LET c == controllers[Len(controllers)]
           IN  /\ c.temperaturefader_heatup_poll
                      = by_default(last.def.heatup_poll, default_heatup_poll)
               /\ c.temperaturefader_cooldown_poll
                      = by_default(last.def.cooldown_poll, default_cooldown_poll)
               /\ c.temperaturefader_fading_poll = default_fading_poll

----------------------------------------------------------------------------
(* C15 *)

\* the temperatures strictly inside the band of fader c
InsideBand(c) ==
    {t \in Temps \cup {0} : /\ c.temperaturefader_min_fade_temp < t
                            /\ t < c.temperaturefader_max_fade_temp}

\* C15: for every registered fader and every two temperatures t1 < t2
\* strictly inside its band, the value on_second_tick hands to set_pwm for
\* t2 is not lower than the one for t1.
C15_MonotoneInsideBand ==
    \A i \in 1..Len(controllers) :
        \A t1, t2 \in InsideBand(controllers[i]) :
            t1 < t2 => Decide(controllers[i], t1).value
                          <= Decide(controllers[i], t2).value

\* with max_fade_pwm >= min_fade_pwm the value does not decrease
MonotoneWithOrderedPwm ==
    \A i \in 1..Len(controllers) :
        (controllers[i].temperaturefader_max_fade_pwm
            >= controllers[i].temperaturefader_min_fade_pwm)
        => \A t1, t2 \in InsideBand(controllers[i]) :
              t1 < t2 => Decide(controllers[i], t1).value
                            <= Decide(controllers[i], t2).value

----------------------------------------------------------------------------
(* C16 *)

\* C16: a service takes the fading branch only on a fader whose
\* max_fade_temp is above its min_fade_temp, so the divisor of the fraction
\* is never zero; on a fader with max_fade_temp = min_fade_temp every
\* service takes the off or the max branch.
C16_NoZeroDivisor ==
    Serviced
        => /\ (last.branch = "fading")
                  => last.before.temperaturefader_max_fade_temp
                        > last.before.temperaturefader_min_fade_temp
           /\ (last.before.temperaturefader_max_fade_temp
                  = last.before.temperaturefader_min_fade_temp)
                  => last.branch \in {"off", "max"}

\* a fader whose band is the single point 50 was serviced at that very
\* temperature
C16_Witness ==
    /\ Serviced
    /\ last.before.temperaturefader_max_fade_temp
          = last.before.temperaturefader_min_fade_temp
    /\ last.current_temp = last.before.temperaturefader_min_fade_temp
    /\ last.branch = "off"

----------------------------------------------------------------------------
(* C19 *)

\* C19: in every reachable state temperaturefader_state of every registered
\* fader equals (temperaturefader_pwm_value > temperaturefader_min_fade_pwm).
C19_StateFollowsValue ==
    \A i \in 1..Len(controllers) :
        controllers[i].temperaturefader_state
            = (controllers[i].temperaturefader_pwm_value
                 > controllers[i].temperaturefader_min_fade_pwm)

\* a fader with min_fade_pwm 10 is on after a service whose writes failed
C19_Witness ==
    /\ Serviced
    /\ controllers[last.fader].temperaturefader_state
    /\ controllers[last.fader].temperaturefader_min_fade_pwm > 0
    /\ controllers[last.fader].temperaturefader_pwm_value
          > controllers[last.fader].temperaturefader_min_fade_pwm
    /\ \E k \in 1..Len(writes) : ~writes[k].ok

----------------------------------------------------------------------------
(* C17 *)

\* C17: when a service stores the poll interval N into the countdown, the
\* next service of that fader is on the N-th tick after it, not before and
\* not after; the first service of a fader is on the
\* temperaturefader_heatup_poll-th tick after load_config made it.
C17_SampleOnNthTick ==
    /\ Serviced => last.waited = last.due
    /\ \A i \in 1..Len(controllers) : clock[i].since < clock[i].due

\* the timing is kept by the intervals that fit the int16_t countdown_timer
SampleOnNthTickWithinInt16 ==
    /\ (Serviced /\ last.due <= 32767) => last.waited = last.due
    /\ \A i \in 1..Len(controllers) : clock[i].since < clock[i].due

\* an interval above 32767 is serviced on the very next tick
NarrowedIntervalIsOneTick ==
    (Serviced /\ last.due > 32767) => last.waited = 1

----------------------------------------------------------------------------
(* C13 *)

\* a definition that is enabled, resolves to a designator, names a switch
\* and finds a controller that answers with that designator
Valid(modcs, def, avail) ==
    /\ def.enable = <<TRUE>>
    /\ ResolveDesignator(modcs, def) # ""
    /\ \E c \in avail : Designator(c) = ResolveDesignator(modcs, def)
    /\ def.switch # "" \/ def.type # ""

\* the registered faders that exist
Live == (1..Len(controllers)) \ dangling

\* C13: every iteration of on_module_loaded registers exactly one fader if
\* its definition is valid and none otherwise, leaves the faders registered
\* for the other definitions as they are, and goes on to the definitions
\* that remain; the end of on_module_loaded leaves the registered faders as
\* they are.
C13_OneFaderPerValidDefinition ==
    [][/\ (last'.op = "load_config" /\ modulist' # modulist)
            => LET v == Valid(last'.modcs, last'.def, last'.avail)
               IN  /\ last'.result = v
                   /\ Len(controllers') = Len(controllers) + (IF v THEN 1 ELSE 0)
                   /\ v => controllers'[Len(controllers')].temp_controllers
                              = MatchingControllers(
                                    ResolveDesignator(last'.modcs, last'.def),
                                    last'.avail)
                   /\ \A k \in 1..Len(controllers) : controllers'[k] = controllers[k]
                   /\ dangling' = dangling
                   /\ modulist' # <<>> => phase' = "loading"
       /\ (last'.op = "on_module_loaded" /\ phase = "loading")
            => /\ controllers' = controllers
               /\ dangling' = dangling]_vars

\* each call of load_config on its own returns true and registers one fader
\* exactly for the valid definitions
ResultIsValidity ==
    [][(last'.op = "load_config" /\ modulist' # modulist)
          => LET v == Valid(last'.modcs, last'.def, last'.avail)
             IN  /\ last'.result = v
                 /\ Len(controllers') = Len(controllers) + (IF v THEN 1 ELSE 0)]_vars

\* C13 holds for every step taken while delete this has not run
FactoryWhileLoaderLives ==
    [][loader.deletes = 0
        => /\ (last'.op = "load_config" /\ modulist' # modulist)
                => /\ \A k \in 1..Len(controllers) : controllers'[k] = controllers[k]
                   /\ dangling' = dangling
                   /\ phase' = "loading"
           /\ (last'.op = "on_module_loaded" /\ phase = "loading")
                => /\ controllers' = controllers
                   /\ dangling' = dangling
                   /\ phase' = "running"]_vars

\* a fader registered for a valid definition and deleted by the end of
\* on_module_loaded
RegisteredFaderDeleted ==
    /\ last.op = "on_module_loaded"
    /\ dangling # {}

----------------------------------------------------------------------------
(* C18 *)

\* C18: delete this runs on the loader exactly once and only after the last
\* iteration of on_module_loaded, no load_config runs on a deleted loader,
\* and no fader that load_config allocated is left neither registered nor
\* deleted.
C18_LoaderDeletedOnceAtEnd ==
    /\ loader.deletes <= 1
    /\ phase = "loading" => loader.deletes = 0
    /\ phase = "running" => loader.deletes = 1
    /\ phase # "crashed"
    /\ last.op = "load_config" => ~last.on_deleted
    /\ leaked = 0

\* the loader is deleted before the end exactly by the definitions that
\* pass every check but name no switch
EarlyDeleteIsMissingSwitch ==
    [][(last'.op = "load_config" /\ modulist' # modulist)
          => ((loader'.deletes > loader.deletes)
                <=> /\ last'.def.enable = <<TRUE>>
                    /\ ResolveDesignator(last'.modcs, last'.def) # ""
                    /\ \E c \in last'.avail :
                          Designator(c) = ResolveDesignator(last'.modcs, last'.def)
                    /\ last'.def.switch = "" /\ last'.def.type = "")]_vars

----------------------------------------------------------------------------
(* C20 *)

\* the longest poll interval of fader c, at least 1
LongestPoll(c) ==
    MaxOf({c.temperaturefader_heatup_poll, c.temperaturefader_cooldown_poll,
           c.temperaturefader_fading_poll, 1})

\* the value fader c is to hold at the highest readable temperature T
Target(c, T) ==
    IF T <= c.temperaturefader_min_fade_temp THEN c.temperaturefader_min_fade_pwm
    ELSE IF T >= c.temperaturefader_max_fade_temp THEN c.temperaturefader_max_fade_pwm
    ELSE c.temperaturefader_min_fade_pwm
           + FloorDiv((T - c.temperaturefader_min_fade_temp)
                         * (c.temperaturefader_max_fade_pwm
                              - c.temperaturefader_min_fade_pwm),
                      c.temperaturefader_max_fade_temp
                        - c.temperaturefader_min_fade_temp)

\* the value the code gives at T: the one of the temperature it samples,
\* which is never below 0
SampledTarget(c, T) == Decide(c, IF T > 0 THEN T ELSE 0).value

\* a step that is a tick of fader i
TickOf(i) ==
    /\ last'.op = "on_second_tick"
    /\ last'.fader = i
    /\ controllers' # controllers \/ clock' # clock

\* C20: once the highest readable temperature has settled at T, every
\* fader holds the target value of T after at most as many ticks as its
\* longest poll interval (at least 1), and from then on, or from the tick
\* it holds that value, its ticks keep the value and write nothing.
C20_SettlesWithinLongestPoll ==
    [][\A i \in 1..Len(controllers) :
          /\ (/\ steady'.on
               /\ steady'.ticks >= LongestPoll(controllers'[i]))
                  => controllers'[i].temperaturefader_pwm_value
                         = Target(controllers'[i], steady'.T)
          /\ (/\ steady.on
               /\ TickOf(i)
               /\ \/ steady.ticks >= LongestPoll(controllers[i])
                  \/ controllers[i].temperaturefader_pwm_value
                         = Target(controllers[i], steady.T))
                  => /\ writes' = <<>>
                     /\ controllers'[i].temperaturefader_pwm_value
                            = Target(controllers[i], steady.T)]_vars

\* the fader settles in time on the value of the temperature it samples
SettlesOnSampledTarget ==
    [][\A i \in 1..Len(controllers) :
          /\ (/\ steady'.on
               /\ steady'.ticks >= LongestPoll(controllers'[i]))
                  => controllers'[i].temperaturefader_pwm_value
                         = SampledTarget(controllers'[i], steady'.T)
          /\ (/\ steady.on
               /\ TickOf(i)
               /\ steady.ticks >= LongestPoll(controllers[i]))
                  => /\ writes' = <<>>
                     /\ controllers'[i].temperaturefader_pwm_value
                            = SampledTarget(controllers[i], steady.T)]_vars

\* the temperature has been settled for the longest poll interval of a
\* fader and more
SettledForLongestPoll ==
    /\ steady.on
    /\ Len(controllers) = 1
    /\ steady.ticks > LongestPoll(controllers[1])

====
